---- MODULE Spec2Model ----
(***************************************************************************)
(* ManipuLogic (non_work_projects/manipulogic.ipynb): the well-formedness  *)
(* scan is_well_formed, the shunting-yard evaluator evaluate_statement,    *)
(* the truth-table loop check_validity and the entry point                 *)
(* check_user_argument.                                                    *)
(*                                                                         *)
(* A statement is a sequence of one-character strings.  A Python call      *)
(* either returns a value or raises; a frame's pc is "returned" or         *)
(* "raised" when the call is over.                                         *)
(***************************************************************************)
EXTENDS Integers, Sequences, FiniteSets, TLC

VARIABLES call, statement, tokens, wf, truth_values, ev, premises, conclusion, arg, loop

vars == <<call, statement, tokens, wf, truth_values, ev, premises, conclusion, arg, loop>>

\* ---------------------------------------------------------------- bounds
\* longest statement handed to is_well_formed
MaxLen == 4
\* longest statement handed to evaluate_statement
EvalLen == 3
\* most premises handed to check_user_argument
MaxPremises == 2
\* most binary operators in a statement without parentheses or negation
MaxOperators == 2

\* ---------------------------------------------------------------- tokens
Letters ==
    <<"A", "B", "C", "D", "E", "F", "G", "H", "I", "J", "K", "L", "M",
      "N", "O", "P", "Q", "R", "S", "T", "U", "V", "W", "X", "Y", "Z">>

\* r'[A-Z]'
variable_pattern == {Letters[n] : n \in 1..Len(Letters)}

\* r'[&+>^=]'
operator_pattern == {"&", "+", ">", "^", "="}

\* rf'{variable_pattern}|{operator_pattern}|[()]|~'
valid_pattern == variable_pattern \cup operator_pattern \cup {"(", ")", "~"}

\* the characters the inputs are drawn from; " " stands for any character
\* that no token pattern matches
Alphabet == {"A", "B", "&", "+", ">", "^", "=", "~", "(", ")", " "}

Statements(n) == UNION {[1..k -> Alphabet] : k \in 0..n}

IsValidToken(c) == c \in valid_pattern

\* re.findall(valid_pattern, statement): every token is one character, so
\* the matches are the characters of the statement that a pattern matches
tokenize(s) == SelectSeq(s, IsValidToken)

Last(s) == s[Len(s)]

Front(s) == SubSeq(s, 1, Len(s) - 1)

\* ------------------------------------------------------- is_well_formed
\* if ''.join(tokens) != statement or len(tokens) < 1
not_all_tokens(s, toks) == toks # s \/ Len(toks) < 1

\* re.fullmatch(variable_pattern, tokens[0]) or tokens[0] in ('(', '~')
starts_properly(toks) == toks[1] \in variable_pattern \/ toks[1] \in {"(", "~"}

ends_anyhow(toks) == TRUE

\* re.fullmatch(variable_pattern, tokens[-1]) or tokens[-1] == ')'
ends_properly(toks) == Last(toks) \in variable_pattern \/ Last(toks) = ")"

wf_returns(f, b) == [f EXCEPT !.pc = "returned", !.result = b]

wf_raises(f) == [f EXCEPT !.pc = "raised"]

\* the frame after lines 29-43: the early returns, or the loop about to start
wf_entry(s) ==
    LET toks == tokenize(s)
        f0 == [pc |-> "loop", i |-> 0, stack |-> <<>>, last_token |-> "",
               result |-> FALSE, reads |-> {}, underflow |-> FALSE, printed |-> <<>>]
    IN  IF not_all_tokens(s, toks) THEN wf_returns(f0, FALSE)
        ELSE IF ~starts_properly(toks) THEN wf_returns(f0, FALSE)
        ELSE IF ~ends_properly(toks) THEN wf_returns(f0, FALSE)
        ELSE f0

\* if not stack or last_token == '('
close_paren_invalid(stack, last_token) == stack = <<>> \/ last_token = "("

\* the part of the negation test evaluated before tokens[i+1] is read
negation_looks_ahead(i, last_token) ==
    last_token \notin operator_pattern /\ i # 0

negation_unchecked(next_token, last_token) == FALSE

\* the rest of the negation test, once tokens[i+1] has been read
negation_misplaced(next_token, last_token) ==
    next_token # "(" /\ last_token # "~" /\ last_token # "("

\* if re.fullmatch(variable_pattern, last_token)
variable_invalid(last_token) == last_token \in variable_pattern

\* if re.fullmatch(operator_pattern, last_token) or last_token == '('
operator_invalid(last_token) == last_token \in operator_pattern \/ last_token = "("

\* print(x): the frame with one more line written to standard output
wf_prints(f, line) == [f EXCEPT !.printed = Append(f.printed, line)]

\* one iteration of `for i, token in enumerate(tokens)`; f.i is the 0-based
\* index of the token, f.reads the 0-based indices read by tokens[i+1]
wf_loop_body(toks, f) ==
    LET i == f.i
        token == toks[i + 1]
        next == [f EXCEPT !.i = i + 1, !.last_token = token]
    IN  IF token = "(" THEN [next EXCEPT !.stack = Append(f.stack, token)]
        ELSE IF token = ")" THEN
            IF close_paren_invalid(f.stack, f.last_token) THEN wf_returns(f, FALSE)
            \* stack.pop() of an empty list raises IndexError
            ELSE IF f.stack = <<>> THEN wf_raises([f EXCEPT !.underflow = TRUE])
            ELSE IF i + 1 < Len(toks) THEN
                LET read == [f EXCEPT !.stack = Front(f.stack),
                                      !.reads = f.reads \cup {i + 1}]
                IN  IF toks[i + 2] \notin {"&", "+", ">", "^", "=", ")"}
                    THEN wf_returns(read, FALSE)
                    ELSE [read EXCEPT !.i = i + 1, !.last_token = token]
            ELSE [next EXCEPT !.stack = Front(f.stack)]
        ELSE IF token = "~" THEN
            IF negation_looks_ahead(i, f.last_token) THEN
                LET read == [f EXCEPT !.reads = f.reads \cup {i + 1}]
                IN  IF i + 1 >= Len(toks) THEN wf_raises(read)
                    ELSE IF negation_misplaced(toks[i + 2], f.last_token)
                         THEN wf_returns(wf_prints(read, "5"), FALSE)
                         ELSE [read EXCEPT !.i = i + 1, !.last_token = token]
            ELSE next
        ELSE IF token \in variable_pattern THEN
            IF variable_invalid(f.last_token) THEN wf_returns(wf_prints(f, token), FALSE)
            ELSE next
        ELSE IF token \in operator_pattern THEN
            IF operator_invalid(f.last_token) THEN wf_returns(f, FALSE) ELSE next
        ELSE next

unclosed_ignored(stack) == FALSE

\* if stack
unclosed(stack) == stack # <<>>

\* lines 68-72, after the loop
wf_exit(f) == IF unclosed(f.stack) THEN wf_returns(f, FALSE) ELSE wf_returns(f, TRUE)

wf_step(toks, f) ==
    IF f.i < Len(toks) THEN wf_loop_body(toks, f) ELSE wf_exit(f)

RECURSIVE wf_run(_, _)
wf_run(toks, f) ==
    IF f.pc = "loop" THEN wf_run(toks, wf_step(toks, f)) ELSE f

\* the whole call, as the frame it ends in
is_well_formed(s) == wf_run(tokenize(s), wf_entry(s))

\* --------------------------------------------------- evaluate_statement
\* precedence = {'~': 3, '&': 2, '+': 1, '>': 0, '^': 0, '=': 0, '(': -1, ')': -1}
precedence(t) ==
    CASE t = "~" -> 3
      [] t = "&" -> 2
      [] t = "+" -> 1
      [] t \in {">", "^", "="} -> 0
      [] t \in {"(", ")"} -> -1

\* while operators and operators[-1] != '(': output.append(operators.pop())
RECURSIVE pop_to_open(_)
pop_to_open(y) ==
    IF y.operators # <<>> /\ Last(y.operators) # "("
    THEN pop_to_open([y EXCEPT !.output = Append(y.output, Last(y.operators)),
                               !.operators = Front(y.operators)])
    ELSE y

RECURSIVE pop_higher(_, _)
pop_higher(y, token) ==
    IF y.operators # <<>> /\ precedence(Last(y.operators)) > precedence(token)
    THEN pop_higher([y EXCEPT !.output = Append(y.output, Last(y.operators)),
                              !.operators = Front(y.operators)], token)
    ELSE y

\* while operators and precedence[operators[-1]] >= precedence[token]:
\*     output.append(operators.pop())
RECURSIVE pop_not_lower(_, _)
pop_not_lower(y, token) ==
    IF y.operators # <<>> /\ precedence(Last(y.operators)) >= precedence(token)
    THEN pop_not_lower([y EXCEPT !.output = Append(y.output, Last(y.operators)),
                                 !.operators = Front(y.operators)], token)
    ELSE y

\* while operators: output.append(operators.pop())
RECURSIVE pop_all(_)
pop_all(y) ==
    IF y.operators # <<>>
    THEN pop_all([y EXCEPT !.output = Append(y.output, Last(y.operators)),
                           !.operators = Front(y.operators)])
    ELSE y

\* one iteration of `for token in tokens` of the conversion to postfix
postfix_token(y, token) ==
    IF token \in variable_pattern THEN [y EXCEPT !.output = Append(y.output, token)]
    ELSE IF token = "(" THEN [y EXCEPT !.operators = Append(y.operators, token)]
    ELSE IF token = ")" THEN
        LET z == pop_to_open(y)
        IN  \* operators.pop() of an empty list raises IndexError
            IF z.operators = <<>> THEN [z EXCEPT !.raised = TRUE]
            ELSE [z EXCEPT !.operators = Front(z.operators)]
    ELSE LET z == pop_not_lower(y, token)
         IN  [z EXCEPT !.operators = Append(z.operators, token)]

RECURSIVE postfix_loop(_, _, _)
postfix_loop(toks, n, y) ==
    IF n > Len(toks) \/ y.raised THEN y
    ELSE postfix_loop(toks, n + 1, postfix_token(y, toks[n]))

\* lines 190-211: the postfix form of the statement, or an IndexError
to_postfix(s) ==
    LET y == postfix_loop(tokenize(s), 1,
                          [output |-> <<>>, operators |-> <<>>, raised |-> FALSE])
    IN  IF y.raised THEN y ELSE pop_all(y)

\* the value a binary operator pushes for the operands a and b
apply_operator(token, a, b) ==
    CASE token = "&" -> a /\ b
      [] token = "+" -> a \/ b
      [] token = ">" -> ~a \/ b
      [] token = "^" -> a # b
      [] token = "=" -> a = b

\* one iteration of `for token in tokens` of eval_tokens; a pop() of an
\* empty value stack raises IndexError (v.underflow)
eval_token(v, token, tv) ==
    LET st == v.stack
        n == Len(st)
    IN  IF token \in DOMAIN tv THEN [v EXCEPT !.stack = Append(st, tv[token])]
        ELSE IF token = "~" THEN
            IF n = 0 THEN [v EXCEPT !.raised = TRUE, !.underflow = TRUE]
            ELSE [v EXCEPT !.stack = Append(Front(st), ~Last(st))]
        ELSE IF token \in {"&", "+", ">", "^", "="} THEN
            IF n < 2 THEN [v EXCEPT !.raised = TRUE, !.underflow = TRUE]
            ELSE [v EXCEPT !.stack =
                     Append(SubSeq(st, 1, n - 2), apply_operator(token, st[n - 1], st[n]))]
        ELSE v

RECURSIVE eval_loop(_, _, _, _)
eval_loop(out, n, v, tv) ==
    IF n > Len(out) \/ v.raised THEN v
    ELSE eval_loop(out, n + 1, eval_token(v, out[n], tv), tv)

\* eval_tokens(output): the frame the call ends in; `left` is the value
\* stack at `return stack.pop()`
eval_tokens(out, tv) ==
    LET v == eval_loop(out, 1, [stack |-> <<>>, raised |-> FALSE, underflow |-> FALSE], tv)
    IN  IF v.raised THEN [pc |-> "raised", value |-> FALSE, left |-> v.stack]
        ELSE IF v.stack = <<>> THEN [pc |-> "raised", value |-> FALSE, left |-> v.stack]
        ELSE [pc |-> "returned", value |-> Last(v.stack), left |-> v.stack]

\* the whole call, as the frame it ends in
evaluate_statement(s, tv) ==
    LET y == to_postfix(s)
    IN  IF y.raised THEN [pc |-> "raised", value |-> FALSE, left |-> <<>>]
        ELSE eval_tokens(y.output, tv)

Assignments(S) == UNION {[D -> BOOLEAN] : D \in SUBSET S}

\* the statement Letters[1] ops[1] Letters[2] ops[2] ..., e.g. A+B&C
Chain(ops) ==
    [j \in 1..(2 * Len(ops) + 1) |->
        IF j % 2 = 1 THEN Letters[(j + 1) \div 2] ELSE ops[j \div 2]]

\* the statements of at most n binary operators, without parentheses or negation
Chains(n) == UNION {{Chain(ops) : ops \in [1..k -> operator_pattern]} : k \in 0..n}

\* ------------------------------------------------------- check_validity
variables_of(s) == {tokenize(s)[n] : n \in 1..Len(tokenize(s))} \cap variable_pattern

\* sorted(set(token for stmt in all_statements for token in tokenize(stmt)
\*            if re.fullmatch(r'[A-Z]', token)))
sorted_variables(ps, c) ==
    LET all_statements == Append(ps, c)
        used == UNION {variables_of(all_statements[n]) : n \in 1..Len(all_statements)}
        IsUsed(l) == l \in used
    IN  SelectSeq(Letters, IsUsed)

RECURSIVE Pow2(_)
Pow2(n) == IF n = 0 THEN 1 ELSE 2 * Pow2(n - 1)

\* generate_truth_table(variables)[r]: itertools.product([True, False],
\* repeat=len(variables)) lists True before False, the last variable
\* changing fastest
truth_table_row(variables, r) ==
    LET n == Len(variables)
    IN  [l \in {variables[j] : j \in 1..n} |->
            LET j == CHOOSE j \in 1..n : variables[j] = l
            IN  (r \div Pow2(n - j)) % 2 = 0]

\* all(evaluate_statement(p, truth_values) for p in premises): stops at the
\* first premise that is false; `calls` counts the calls of evaluate_statement
RECURSIVE all_premises(_, _, _)
all_premises(ps, n, tv) ==
    IF n > Len(ps) THEN [pc |-> "returned", value |-> TRUE, calls |-> 0]
    ELSE LET e == evaluate_statement(ps[n], tv)
         IN  IF e.pc = "raised" THEN [pc |-> "raised", value |-> FALSE, calls |-> 1]
             ELSE IF ~e.value THEN [pc |-> "returned", value |-> FALSE, calls |-> 1]
             ELSE LET rest == all_premises(ps, n + 1, tv)
                  IN  [rest EXCEPT !.calls = rest.calls + 1]

\* one iteration of `for truth_values in truth_table`: "raised", "invalid"
\* (return False) or "next"
validity_row(ps, c, tv) ==
    LET premises_truth == all_premises(ps, 1, tv)
        conclusion_truth == evaluate_statement(c, tv)
    IN  IF premises_truth.pc = "raised"
        THEN [outcome |-> "raised", calls |-> premises_truth.calls]
        ELSE IF conclusion_truth.pc = "raised"
        THEN [outcome |-> "raised", calls |-> premises_truth.calls + 1]
        ELSE IF premises_truth.value /\ ~conclusion_truth.value
        THEN [outcome |-> "invalid", calls |-> premises_truth.calls + 1]
        ELSE [outcome |-> "next", calls |-> premises_truth.calls + 1]

\* -------------------------------------------------- check_user_argument
\* f'Premise {premise} is not well-formed.\n'
premise_line(p) == <<"Premise", p, "is not well-formed.">>

only_first_premise(lines, premise) ==
    IF lines = <<>> THEN <<premise_line(premise)>> ELSE lines

\* not_well_formed_premises += f'Premise {premise} is not well-formed.\n'
note_premise(lines, premise) == Append(lines, premise_line(premise))

\* f'Conclusion {conclusion} is not well-formed.\n'
conclusion_line(c) == <<"Conclusion", c, "is not well-formed.">>

\* f'The inputted argument is{"" if argument_valid else " not"} valid.'
verdict_line(argument_valid) ==
    IF argument_valid THEN <<"The inputted argument is valid.">>
    ELSE <<"The inputted argument is not valid.">>

\* the statements premises and conclusions are drawn from
ArgStatements ==
    { <<"A">>, <<"B">>, <<"~", "A">>, <<"A", ">", "B">>, <<"A", "&", "B">>,
      <<"~", "~", "A">>, <<"A", "B">>, <<"A", "~", "B">>, <<"(", "A", "+", ")">>,
      <<"A", " ", "B">>, <<>> }

PremiseLists(n) == UNION {[1..k -> ArgStatements] : k \in 0..n}

\* ------------------------------------------------------------ the calls
Idle == [pc |-> "none"]

\* is_well_formed(statement) has been called
InitWF ==
    /\ loop = Idle
    /\ call = "is_well_formed"
    /\ statement \in Statements(MaxLen)
    /\ tokens = <<>>
    /\ wf = [pc |-> "entry"]
    /\ truth_values = <<>>
    /\ ev = Idle
    /\ premises = <<>>
    /\ conclusion = <<>>
    /\ arg = Idle

\* evaluate_statement(statement, truth_values) has been called
InitEval ==
    /\ loop = Idle
    /\ call = "evaluate_statement"
    /\ statement \in Statements(EvalLen)
    /\ tokens = <<>>
    /\ wf = Idle
    /\ truth_values \in Assignments({"A", "B"})
    /\ ev = [pc |-> "entry"]
    /\ premises = <<>>
    /\ conclusion = <<>>
    /\ arg = Idle

\* evaluate_statement(statement, truth_values) has been called with a chain
\* of operators and an assignment of its variables
InitChain ==
    /\ loop = Idle
    /\ call = "evaluate_statement"
    /\ statement \in Chains(MaxOperators)
    /\ tokens = <<>>
    /\ wf = Idle
    /\ truth_values \in [variables_of(statement) -> BOOLEAN]
    /\ ev = [pc |-> "entry"]
    /\ premises = <<>>
    /\ conclusion = <<>>
    /\ arg = Idle

\* check_user_argument(premises, conclusion) has been called
InitArg ==
    /\ loop = Idle
    /\ call = "check_user_argument"
    /\ statement = <<>>
    /\ tokens = <<>>
    /\ wf = Idle
    /\ truth_values = <<>>
    /\ ev = Idle
    /\ premises \in PremiseLists(MaxPremises)
    /\ conclusion \in ArgStatements
    /\ arg = [pc |-> "premises", k |-> 0, not_well_formed_premises |-> <<>>,
              row |-> 0, calls |-> 0, result |-> FALSE, message |-> <<>>,
              printed |-> <<>>]

\* ---------------------------------------------- start_command_line_mode
\* the lines typed at the prompts; here " " is the space character
exit == <<"e", "x", "i", "t">>

done == <<"d", "o", "n", "e">>

InputLines ==
    { exit, done, <<"A">>, <<"B">>, <<"A", ">", "B">>, <<"~", "~", "A">>,
      <<"A", "B">>, <<" ", "A">>, <<>> }

\* in_str.strip()
RECURSIVE strip(_)
strip(s) ==
    IF s = <<>> THEN s
    ELSE IF Head(s) = " " THEN strip(Tail(s))
    ELSE IF Last(s) = " " THEN strip(Front(s))
    ELSE s

\* print(x) of a one-value line, as is_well_formed prints it
printed_lines(printed) == [n \in 1..Len(printed) |-> <<printed[n]>>]

\* f'Premise {stripped} is well formed.'
premise_accepted_line(stripped) == <<"Premise", stripped, "is well formed.">>

\* f'Premise {stripped} is not well formed.  Check your syntax and try again'
premise_rejected_line(stripped) ==
    <<"Premise", stripped, "is not well formed.  Check your syntax and try again">>

\* f'Conclusion {stripped} is not well formed.  Check your syntax and try again'
conclusion_rejected_line(stripped) ==
    <<"Conclusion", stripped, "is not well formed.  Check your syntax and try again">>

\* the truth value Python gives the tuple check_user_argument returns: a
\* tuple is false only when it is empty
tuple_truth(returned) == Len(returned) # 0

\* f'***Your argument is {"" if check_user_argument(...) else " not"}valid***\n'
your_argument_line(returned) ==
    <<"***Your argument is ", IF tuple_truth(returned) THEN "" ELSE " not", "valid***">>

\* start_command_line_mode() has been called; lines 373-381
InitLoop ==
    /\ call = "start_command_line_mode"
    /\ statement = <<>>
    /\ tokens = <<>>
    /\ wf = Idle
    /\ truth_values = <<>>
    /\ ev = Idle
    /\ premises = <<>>
    /\ conclusion = <<>>
    /\ arg = Idle
    /\ loop = [pc |-> "start", in_str |-> <<>>, well_formed_premises |-> <<>>,
               all_premises_well_formed |-> TRUE, conclusion |-> <<>>,
               entered |-> 0, returned |-> <<>>, printed |-> <<>>]

Init == InitWF \/ InitEval \/ InitChain \/ InitArg \/ InitLoop

\* is_well_formed, lines 29-43
WFEntry ==
    /\ wf.pc = "entry"
    /\ tokens' = tokenize(statement)
    /\ wf' = wf_entry(statement)
    /\ UNCHANGED <<call, statement, truth_values, ev, premises, conclusion, arg, loop>>

\* is_well_formed, one iteration of the loop of lines 44-67
WFLoop ==
    /\ wf.pc = "loop"
    /\ wf.i < Len(tokens)
    /\ wf' = wf_loop_body(tokens, wf)
    /\ UNCHANGED <<call, statement, tokens, truth_values, ev, premises, conclusion, arg, loop>>

\* is_well_formed, lines 68-72
WFExit ==
    /\ wf.pc = "loop"
    /\ wf.i = Len(tokens)
    /\ wf' = wf_exit(wf)
    /\ UNCHANGED <<call, statement, tokens, truth_values, ev, premises, conclusion, arg, loop>>

\* evaluate_statement, lines 190-211: the conversion to postfix
EvalPostfix ==
    /\ ev.pc = "entry"
    /\ tokens' = tokenize(statement)
    /\ LET y == to_postfix(statement)
       IN  ev' = IF y.raised
                 THEN [pc |-> "raised", output |-> y.output, value |-> FALSE, left |-> <<>>]
                 ELSE [pc |-> "postfix", output |-> y.output, value |-> FALSE, left |-> <<>>]
    /\ UNCHANGED <<call, statement, wf, truth_values, premises, conclusion, arg, loop>>

\* evaluate_statement, line 213: return eval_tokens(output)
EvalTokens ==
    /\ ev.pc = "postfix"
    /\ LET e == eval_tokens(ev.output, truth_values)
       IN  ev' = [ev EXCEPT !.pc = e.pc, !.value = e.value, !.left = e.left]
    /\ UNCHANGED <<call, statement, tokens, wf, truth_values, premises, conclusion, arg, loop>>

\* check_user_argument, lines 240-242: one iteration of `for premise in premises`
CheckPremise ==
    /\ arg.pc = "premises"
    /\ arg.k < Len(premises)
    /\ LET premise == premises[arg.k + 1]
           w == is_well_formed(premise)
           called == [arg EXCEPT !.printed = arg.printed \o w.printed]
       IN  arg' = IF w.pc = "raised" THEN [called EXCEPT !.pc = "raised"]
                  ELSE IF ~w.result
                  THEN [called EXCEPT !.k = arg.k + 1,
                                      !.not_well_formed_premises =
                                          note_premise(arg.not_well_formed_premises, premise)]
                  ELSE [called EXCEPT !.k = arg.k + 1]
    /\ UNCHANGED <<call, statement, tokens, wf, truth_values, ev, premises, conclusion, loop>>

\* check_user_argument, lines 243-244
PremisesChecked ==
    /\ arg.pc = "premises"
    /\ arg.k = Len(premises)
    /\ arg' = IF arg.not_well_formed_premises # <<>>
              THEN [arg EXCEPT !.pc = "returned", !.result = FALSE,
                               !.message = arg.not_well_formed_premises]
              ELSE [arg EXCEPT !.pc = "conclusion"]
    /\ UNCHANGED <<call, statement, tokens, wf, truth_values, ev, premises, conclusion, loop>>

\* check_user_argument, lines 245-246, and the call of check_validity
\* (lines 219-221)
CheckConclusion ==
    /\ arg.pc = "conclusion"
    /\ LET w == is_well_formed(conclusion)
           called == [arg EXCEPT !.printed = arg.printed \o w.printed]
       IN  arg' = IF w.pc = "raised" THEN [called EXCEPT !.pc = "raised"]
                  ELSE IF ~w.result
                  THEN [called EXCEPT !.pc = "returned", !.result = FALSE,
                                      !.message = <<conclusion_line(conclusion)>>]
                  ELSE [called EXCEPT !.pc = "validity", !.row = 0]
    /\ UNCHANGED <<call, statement, tokens, wf, truth_values, ev, premises, conclusion, loop>>

\* check_validity, lines 223-227: one iteration of `for truth_values in truth_table`
ValidityRow ==
    /\ arg.pc = "validity"
    /\ LET variables == sorted_variables(premises, conclusion)
       IN  /\ arg.row < Pow2(Len(variables))
           /\ LET r == validity_row(premises, conclusion, truth_table_row(variables, arg.row))
                  counted == [arg EXCEPT !.calls = arg.calls + r.calls]
              IN  arg' = IF r.outcome = "raised" THEN [counted EXCEPT !.pc = "raised"]
                         ELSE IF r.outcome = "invalid"
                         THEN [counted EXCEPT !.pc = "verdict", !.result = FALSE]
                         ELSE [counted EXCEPT !.row = arg.row + 1]
    /\ UNCHANGED <<call, statement, tokens, wf, truth_values, ev, premises, conclusion, loop>>

\* check_validity, line 228: return True
ValidityHolds ==
    /\ arg.pc = "validity"
    /\ arg.row = Pow2(Len(sorted_variables(premises, conclusion)))
    /\ arg' = [arg EXCEPT !.pc = "verdict", !.result = TRUE]
    /\ UNCHANGED <<call, statement, tokens, wf, truth_values, ev, premises, conclusion, loop>>

\* check_user_argument, line 248
Verdict ==
    /\ arg.pc = "verdict"
    /\ arg' = [arg EXCEPT !.pc = "returned", !.message = <<verdict_line(arg.result)>>]
    /\ UNCHANGED <<call, statement, tokens, wf, truth_values, ev, premises, conclusion, loop>>

\* lines 382-387: the test of `while in_str != 'exit'`, the start of a new
\* argument and the first input(); loop.printed holds the lines printed
\* since the argument under way was started, prompts left out
LoopStart ==
    /\ loop.pc = "start"
    /\ IF loop.in_str = exit THEN loop' = [loop EXCEPT !.pc = "done"]
       ELSE \E line \in InputLines :
               loop' = [loop EXCEPT !.pc = "premises", !.in_str = line,
                                    !.well_formed_premises = <<>>,
                                    !.all_premises_well_formed = TRUE,
                                    !.conclusion = <<>>, !.entered = 0,
                                    !.returned = <<>>,
                                    !.printed = << <<"Start entering your premises.">> >>]
    /\ UNCHANGED <<call, statement, tokens, wf, truth_values, ev, premises, conclusion, arg>>

\* lines 388-396: one iteration of `while in_str not in ('exit', 'done')`;
\* after MaxPremises premises the user types exit or done
LoopPremise ==
    /\ loop.pc = "premises"
    /\ loop.in_str \notin {exit, done}
    /\ LET stripped == strip(loop.in_str)
           w == is_well_formed(stripped)
           out == loop.printed \o printed_lines(w.printed)
       IN  IF w.pc = "raised"
           THEN loop' = [loop EXCEPT !.pc = "raised", !.printed = out]
           ELSE \E line \in (IF loop.entered + 1 < MaxPremises THEN InputLines ELSE {exit, done}) :
                   loop' = IF w.result
                           THEN [loop EXCEPT !.in_str = line, !.entered = loop.entered + 1,
                                             !.well_formed_premises =
                                                 Append(loop.well_formed_premises, stripped),
                                             !.printed = Append(out, premise_accepted_line(stripped))]
                           ELSE [loop EXCEPT !.in_str = line, !.entered = loop.entered + 1,
                                             !.all_premises_well_formed = FALSE,
                                             !.printed = Append(out, premise_rejected_line(stripped))]
    /\ UNCHANGED <<call, statement, tokens, wf, truth_values, ev, premises, conclusion, arg>>

\* lines 397-399: a premise was rejected; `break` leaves the outer loop
LoopBreak ==
    /\ loop.pc = "premises"
    /\ loop.in_str \in {exit, done}
    /\ ~loop.all_premises_well_formed
    /\ loop' = [loop EXCEPT !.pc = "done", !.in_str = exit]
    /\ UNCHANGED <<call, statement, tokens, wf, truth_values, ev, premises, conclusion, arg>>

\* lines 400-408: the input() of the conclusion and its check
LoopConclusion ==
    /\ loop.pc = "premises"
    /\ loop.in_str \in {exit, done}
    /\ loop.all_premises_well_formed
    /\ IF loop.in_str = exit THEN loop' = [loop EXCEPT !.pc = "report"]
       ELSE \E line \in InputLines :
               LET stripped == strip(line)
                   w == is_well_formed(stripped)
                   out == loop.printed \o printed_lines(w.printed)
               IN  loop' = IF line = exit THEN [loop EXCEPT !.pc = "report", !.in_str = line]
                           ELSE IF w.pc = "raised"
                           THEN [loop EXCEPT !.pc = "raised", !.in_str = line, !.printed = out]
                           ELSE IF w.result
                           THEN [loop EXCEPT !.pc = "report", !.in_str = line,
                                             !.conclusion = stripped, !.printed = out]
                           ELSE [loop EXCEPT !.pc = "report", !.in_str = exit,
                                             !.printed = Append(out, conclusion_rejected_line(stripped))]
    /\ UNCHANGED <<call, statement, tokens, wf, truth_values, ev, premises, conclusion, arg>>

\* line 409 with in_str == 'exit', then line 412
LoopExiting ==
    /\ loop.pc = "report"
    /\ loop.in_str = exit
    /\ loop' = [loop EXCEPT !.pc = "start",
                            !.printed = Append(loop.printed,
                                               <<"Exiting Manipulogic Command line mode">>)]
    /\ UNCHANGED <<call, statement, tokens, wf, truth_values, ev, premises, conclusion, arg>>

\* lines 409-410: the call check_user_argument(well_formed_premises, conclusion)
LoopCall ==
    /\ loop.pc = "report"
    /\ loop.in_str # exit
    /\ loop' = [loop EXCEPT !.pc = "calling"]
    /\ premises' = loop.well_formed_premises
    /\ conclusion' = loop.conclusion
    /\ arg' = [pc |-> "premises", k |-> 0, not_well_formed_premises |-> <<>>,
               row |-> 0, calls |-> 0, result |-> FALSE, message |-> <<>>,
               printed |-> <<>>]
    /\ UNCHANGED <<call, statement, tokens, wf, truth_values, ev>>

\* lines 410-412: check_user_argument has returned; the verdict is printed
LoopVerdict ==
    /\ loop.pc = "calling"
    /\ arg.pc = "returned"
    /\ LET returned == <<arg.result, arg.message>>
       IN  loop' = [loop EXCEPT !.pc = "start", !.returned = returned,
                                !.printed = loop.printed \o printed_lines(arg.printed) \o
                                    << your_argument_line(returned),
                                       <<"Starting new argument.  Type \"exit\" to quit this program">>,
                                       <<"Exiting Manipulogic Command line mode">> >>]
    /\ premises' = <<>>
    /\ conclusion' = <<>>
    /\ arg' = Idle
    /\ UNCHANGED <<call, statement, tokens, wf, truth_values, ev>>

\* line 410: check_user_argument has raised, and so does the loop
LoopRaised ==
    /\ loop.pc = "calling"
    /\ arg.pc = "raised"
    /\ loop' = [loop EXCEPT !.pc = "raised",
                            !.printed = loop.printed \o printed_lines(arg.printed)]
    /\ UNCHANGED <<call, statement, tokens, wf, truth_values, ev, premises, conclusion, arg>>

Next ==
    \/ WFEntry
    \/ WFLoop
    \/ WFExit
    \/ EvalPostfix
    \/ EvalTokens
    \/ CheckPremise
    \/ PremisesChecked
    \/ CheckConclusion
    \/ ValidityRow
    \/ ValidityHolds
    \/ Verdict
    \/ LoopStart
    \/ LoopPremise
    \/ LoopBreak
    \/ LoopConclusion
    \/ LoopExiting
    \/ LoopCall
    \/ LoopVerdict
    \/ LoopRaised

Spec == Init /\ [][Next]_vars

\* ------------------------------------------------------------ reference
\* F ::= V | '~' F | '(' F ')' | F op F
RECURSIVE Derivable(_)
Derivable(s) ==
    LET n == Len(s)
    IN  \/ n = 1 /\ s[1] \in variable_pattern
        \/ n >= 2 /\ s[1] = "~" /\ Derivable(SubSeq(s, 2, n))
        \/ n >= 3 /\ s[1] = "(" /\ s[n] = ")" /\ Derivable(SubSeq(s, 2, n - 1))
        \/ \E k \in 2..(n - 1) :
               /\ s[k] \in operator_pattern
               /\ Derivable(SubSeq(s, 1, k - 1))
               /\ Derivable(SubSeq(s, k + 1, n))

Count(s, c) == Cardinality({n \in 1..Len(s) : s[n] = c})

\* the number of parentheses open before position k
DepthBefore(s, k) == Count(SubSeq(s, 1, k - 1), "(") - Count(SubSeq(s, 1, k - 1), ")")

Connective(op, l, r) ==
    CASE op = "&" -> l /\ r
      [] op = "+" -> l \/ r
      [] op = ">" -> (~l) \/ r
      [] op = "^" -> l # r
      [] op = "=" -> l = r

Binding(op) == CASE op = "&" -> 2 [] op = "+" -> 1 [] OTHER -> 0

\* the classical value of a derivable statement: the main connective is the
\* last of the loosest-binding operators outside every parenthesis
RECURSIVE TruthValue(_, _)
TruthValue(s, tv) ==
    LET n == Len(s)
        outer == {k \in 1..n : s[k] \in operator_pattern /\ DepthBefore(s, k) = 0}
    IN  IF outer # {} THEN
            LET loosest == {k \in outer : \A j \in outer : Binding(s[k]) <= Binding(s[j])}
                k == CHOOSE k \in loosest : \A j \in loosest : j <= k
            IN  Connective(s[k], TruthValue(SubSeq(s, 1, k - 1), tv),
                                 TruthValue(SubSeq(s, k + 1, n), tv))
        ELSE IF s[1] = "~" THEN ~TruthValue(SubSeq(s, 2, n), tv)
        ELSE IF s[1] = "(" THEN TruthValue(SubSeq(s, 2, n - 1), tv)
        ELSE tv[s[1]]

Accepted(s) == is_well_formed(s).pc = "returned" /\ is_well_formed(s).result

WellFormed(s) == Accepted(s) /\ Derivable(s)

ArgumentVariables == {sorted_variables(premises, conclusion)[n] :
                         n \in 1..Len(sorted_variables(premises, conclusion))}

\* an assignment under which every premise is true and the conclusion false
Refuted ==
    \E tv \in [ArgumentVariables -> BOOLEAN] :
        /\ \A n \in 1..Len(premises) : TruthValue(premises[n], tv)
        /\ ~TruthValue(conclusion, tv)

WFOver == call = "is_well_formed" /\ wf.pc \in {"returned", "raised"}

EvalOver == call = "evaluate_statement" /\ ev.pc \in {"returned", "raised"}

ArgOver == call = "check_user_argument" /\ arg.pc \in {"returned", "raised"}

\* -------------------------------------------------------------- claims
\* C1: check_user_argument is total: whatever the premises and the
\* conclusion, the call never ends in an error.
C1_NeverRaises == call = "check_user_argument" => arg.pc # "raised"

\* C2: for a well-formed statement and an assignment of all its variables,
\* evaluate_statement returns the classical truth value of the statement.
C2_ClassicalValue ==
    (EvalOver /\ WellFormed(statement) /\ variables_of(statement) \subseteq DOMAIN truth_values)
        => (ev.pc = "returned" /\ ev.value = TruthValue(statement, truth_values))

\* C3: for well-formed premises and conclusion, check_validity returns
\* false exactly when some assignment makes every premise true and the
\* conclusion false, and true in every other case.
C3_ValidityExact ==
    (/\ call = "check_user_argument"
     /\ arg.pc \in {"verdict", "returned", "raised"}
     /\ \A n \in 1..Len(premises) : WellFormed(premises[n])
     /\ WellFormed(conclusion))
        => (arg.pc # "raised" /\ (arg.result <=> ~Refuted))

\* C4: is_well_formed returns true for exactly the statements derivable
\* from F ::= V | '~' F | '(' F ')' | F op F.
C4_ExactlyGrammar == WFOver => (wf.pc = "returned" /\ (wf.result <=> Derivable(statement)))

\* the scan of is_well_formed has raised nothing, its index is within the
\* tokens and every tokens[i+1] it has read exists
ScanSafe ==
    (call = "is_well_formed" /\ wf.pc # "entry")
        => /\ wf.pc \in {"loop", "returned"}
           /\ wf.result \in BOOLEAN
           /\ wf.i \in 0..Len(tokens)
           /\ \A r \in wf.reads : r < Len(tokens)

\* C5: is_well_formed is total: no step of the scan raises or reads a
\* token outside the tokens, every iteration that does not return moves
\* to the next token, and after the last token the call returns a boolean.
C5_ScanTotal ==
    [][/\ ScanSafe'
       /\ (wf.pc = "loop" /\ wf'.pc = "loop") => wf'.i = wf.i + 1
       /\ (wf.pc = "loop" /\ wf.i = Len(tokens)) => wf'.pc = "returned"]_vars

\* a call that has returned after the negation branch read tokens[i+1]
C5_Witness == WFOver /\ wf.pc = "returned" /\ \E r \in wf.reads : tokens[r] = "~"

RECURSIVE RejectedLines(_)
RejectedLines(ps) ==
    IF ps = <<>> THEN <<>>
    ELSE IF Accepted(Head(ps)) THEN RejectedLines(Tail(ps))
    ELSE <<premise_line(Head(ps))>> \o RejectedLines(Tail(ps))

SomePremiseRejected == \E n \in 1..Len(premises) : ~Accepted(premises[n])

\* C6: with a rejected premise check_user_argument returns false without
\* evaluating anything, its message being the diagnostics of the rejected
\* premises in order; the conclusion's diagnostic is returned only when
\* every premise is accepted and the conclusion rejected.
C6_PremiseDiagnostics ==
    call = "check_user_argument" =>
        /\ SomePremiseRejected =>
              /\ arg.pc \in {"premises", "returned"}
              /\ arg.calls = 0
              /\ arg.pc = "returned" =>
                    (~arg.result /\ arg.message = RejectedLines(premises))
        /\ (arg.pc = "returned" /\ arg.message = <<conclusion_line(conclusion)>>) =>
              (~SomePremiseRejected /\ ~Accepted(conclusion))

\* a call that has returned one diagnostic, for the second of two premises
C6_Witness ==
    /\ ArgOver
    /\ Len(premises) = 2
    /\ Accepted(premises[1])
    /\ ~Accepted(premises[2])
    /\ arg.message = <<premise_line(premises[2])>>

\* C7: evaluate_statement, called with a statement is_well_formed rejects
\* or with an assignment lacking one of its variables, returns no boolean.
C7_ViolationRaises ==
    (EvalOver /\ (~Accepted(statement) \/ ~(variables_of(statement) \subseteq DOMAIN truth_values)))
        => ev.pc = "raised"

NegationPlaced(s, n) ==
    \/ n = 1
    \/ n > 1 /\ s[n - 1] \in operator_pattern \cup {"(", "~"}
    \/ n < Len(s) /\ s[n + 1] = "("

\* C8: in an accepted statement every '~' is the first token, or follows
\* a binary operator, a '(' or a '~', or precedes a '('; 'A~B' is rejected
\* and '~~A' is accepted.
C8_NegationPlacement ==
    WFOver =>
        /\ wf.pc = "returned"
        /\ wf.result => \A n \in 1..Len(statement) :
                            statement[n] = "~" => NegationPlaced(statement, n)
        /\ statement = <<"A", "~", "B">> => ~wf.result
        /\ statement = <<"~", "~", "A">> => wf.result

\* an accepted statement with a double negation
C8_Witness ==
    /\ WFOver
    /\ wf.result
    /\ \E n \in 2..Len(statement) : statement[n] = "~" /\ statement[n - 1] = "~"

\* C9: an accepted statement has balanced parentheses and no empty pair;
\* during the scan the stack depth is opens minus closes, and the stack is
\* never popped when empty.
C9_Balanced ==
    (call = "is_well_formed" /\ wf.pc # "entry") =>
        /\ ~wf.underflow
        /\ wf.pc = "loop" => Len(wf.stack) = DepthBefore(tokens, wf.i + 1)
        /\ (wf.pc = "returned" /\ wf.result) =>
              /\ \A k \in 1..Len(statement) : DepthBefore(statement, k) >= 0
              /\ DepthBefore(statement, Len(statement) + 1) = 0
              /\ \A n \in 1..(Len(statement) - 1) :
                     ~(statement[n] = "(" /\ statement[n + 1] = ")")

\* an accepted statement with parentheses
C9_Witness == WFOver /\ wf.result /\ Count(statement, "(") >= 1

\* C10: in an accepted statement every binary operator has a variable or
\* ')' before it and a variable, '~' or '(' after it, and no two variables
\* are adjacent.
C10_NoMissingOperand ==
    (WFOver /\ wf.result) =>
        /\ \A n \in 1..Len(statement) :
               statement[n] \in operator_pattern =>
                   /\ n > 1
                   /\ statement[n - 1] \in variable_pattern \cup {")"}
                   /\ n < Len(statement)
                   /\ statement[n + 1] \in variable_pattern \cup {"~", "("}
        /\ \A n \in 1..(Len(statement) - 1) :
               ~(statement[n] \in variable_pattern /\ statement[n + 1] \in variable_pattern)

\* C11: for a well-formed statement and an assignment of all its variables,
\* eval_tokens never pops an empty value stack, and after the last postfix
\* token the value stack holds exactly one value, the one returned.
C11_OneValueLeft ==
    (EvalOver /\ WellFormed(statement) /\ variables_of(statement) \subseteq DOMAIN truth_values)
        => (ev.pc = "returned" /\ Len(ev.left) = 1 /\ ev.value = ev.left[1])

\* a statement of variables and binary operators only
IsChain(s) ==
    /\ Len(s) % 2 = 1
    /\ \A j \in 1..Len(s) :
           IF j % 2 = 1 THEN s[j] \in variable_pattern ELSE s[j] \in operator_pattern

\* C12: without parentheses or negation, evaluate_statement groups by the
\* precedence '&' above '+' above '>', '^', '=' and, at equal precedence,
\* to the left: 'A+B&C' is A+(B&C) and 'A>B>C' is (A>B)>C.
C12_Precedence ==
    (EvalOver /\ IsChain(statement) /\ variables_of(statement) \subseteq DOMAIN truth_values)
        => /\ ev.pc = "returned"
           /\ ev.value = TruthValue(statement, truth_values)
           /\ statement = <<"A", "+", "B", "&", "C">> =>
                  ev.value = (truth_values["A"] \/ (truth_values["B"] /\ truth_values["C"]))
           /\ statement = <<"A", ">", "B", ">", "C">> =>
                  ev.value = ((truth_values["A"] => truth_values["B"]) => truth_values["C"])

\* 'A+B&C' has been evaluated under A true, B and C false, where A+(B&C)
\* and (A+B)&C differ
C12_Witness ==
    /\ EvalOver
    /\ statement = <<"A", "+", "B", "&", "C">>
    /\ truth_values = [l \in {"A", "B", "C"} |-> l = "A"]
    /\ ev.value

\* what the call under way has written to standard output
Printed ==
    IF call = "is_well_formed" /\ wf.pc # "entry" THEN wf.printed
    ELSE IF call = "check_user_argument" THEN arg.printed
    ELSE <<>>

CoreCall == call \in {"is_well_formed", "evaluate_statement", "check_user_argument"}

\* C13: a call of is_well_formed, evaluate_statement, check_validity or
\* check_user_argument writes nothing to output and leaves its arguments
\* unchanged, on accepting and on rejecting paths alike.
C13_NoSideEffects ==
    [][CoreCall =>
          /\ Printed' = <<>>
          /\ statement' = statement
          /\ truth_values' = truth_values
          /\ premises' = premises
          /\ conclusion' = conclusion]_vars

\* the line that reports the boolean b
ReportOf(b) == <<"***Your argument is ", IF b THEN "" ELSE " not", "valid***">>

\* the loop has printed a verdict: it is the third line from the end
Reported == call = "start_command_line_mode" /\ loop.pc = "start" /\ loop.returned # <<>>

\* C14: after well-formed premises, 'done' and a well-formed conclusion,
\* the loop reports the argument as valid when check_user_argument
\* returned true and as not valid when it returned false.
C14_VerdictAsReturned ==
    Reported => loop.printed[Len(loop.printed) - 2] = ReportOf(loop.returned[1])

====
